---- MODULE Spec2Model ----
(***************************************************************************)
(* Model of rocket-okapi/src/request/from_data_impls.rs: the               *)
(* OpenApiFromData::request_body rule of every request-body extractor.     *)
(*                                                                         *)
(* An extractor type is a nested tuple:                                    *)
(*   <<"String">>, <<"Vec_u8">>, ...        the concrete extractors        *)
(*   <<"Form", U>>, <<"Json", U>>, <<"MsgPack", U>>   U a payload type     *)
(*   <<"Option", T>>, <<"Result", T>>       the generic wrappers           *)
(*   <<"User", k>>          an extractor implemented outside this file     *)
(* One document-build pass calls request_body any number of times on the  *)
(* same generator; the state records the last call and the generator.     *)
(***************************************************************************)
EXTENDS Naturals, Sequences, FiniteSets, TLC

VARIABLES
    gen,        \* the OpenApiGenerator: the set of named schema definitions
    ty,         \* the extractor type of the last request_body call
    mime_type,  \* its mime_type argument, None or Some(t)
    result      \* what the call returned, Ok(body) or Err(e)

vars == <<gen, ty, mime_type, result>>

\* Greatest nesting depth of Option/Result around an extractor.
MaxDepth == 3

----------------------------------------------------------------------------
(* Option<_> and Result<_, _> values *)

None == <<>>
Some(x) == <<x>>

Ok(body) == [ok |-> TRUE, body |-> body]
Err(e) == [ok |-> FALSE, err |-> e]

\* What a rule hands back: its return value and the generator it mutated.
Ret(r, g) == [result |-> r, gen |-> g]

----------------------------------------------------------------------------
(* okapi::Map, MediaType, RequestBody *)

Map_new == <<>>

Map_insert(map, k, v) ==
    [x \in (DOMAIN map) \cup {k} |-> IF x = k THEN v ELSE map[x]]

MediaType_default == [schema |-> None, example |-> None, encoding |-> Map_new]

RequestBody_default == [description |-> None, content |-> Map_new, required |-> FALSE]

----------------------------------------------------------------------------
(* The inputs *)

DEFAULT_MIME_TYPE == "application/octet-stream"

\* The mime_type arguments a caller passes.
MimeArgs == {None, Some("image/png"), Some("text/plain")}

\* The structured payload type (T: JsonSchema) of Form, Json and MsgPack.
PayloadTypes == {"U"}

\* Rules of extractors implemented outside this file.
UserRules == {"ok", "errSchema", "errOther"}

Leaves ==
    {<<n>> : n \in {"String", "str", "Cow_str", "Vec_u8", "slice_u8", "TempFile",
                    "Capped_TempFile", "Capped_Cow_str", "Capped_str",
                    "Capped_RawStr", "Capped_slice_u8", "Capped_String",
                    "Capped_Vec_u8", "RawStr", "Data"}}
    \cup {<<w, U>> : w \in {"Form", "Json", "MsgPack"}, U \in PayloadTypes}
    \cup {<<"User", k>> : k \in UserRules}

RECURSIVE ExtractorTypes(_)
ExtractorTypes(d) ==
    IF d = 0 THEN Leaves
    ELSE LET S == ExtractorTypes(d - 1)
         IN  S \cup {<<"Option", T>> : T \in S} \cup {<<"Result", T>> : T \in S}

\* The types T that Option<T> and Result<T, _> are called with.
InnerTypes == ExtractorTypes(MaxDepth - 1)

----------------------------------------------------------------------------
(* The schema generator, gen.json_schema::<T>() *)

\* str forwards to String; a named type is registered and referenced.
json_schema(g, T) ==
    CASE T \in {"String", "str"} -> [schema |-> "{type:string}", gen |-> g]
      [] T = "Vec<u8>" ->
            [schema |-> "{type:array,items:{type:integer,format:uint8}}", gen |-> g]
      [] OTHER -> [schema |-> "{$ref:" \o T \o "}", gen |-> g \cup {T}]

----------------------------------------------------------------------------
(* The rules *)

\* A get_mime_type that never looks at the caller's MIME type.
get_mime_type_IgnoresOverride(m, def) == def

get_mime_type(m, def) ==
    IF m # None THEN m[1] ELSE def

\* A fn_request_body that builds the map and forgets the insert.
fn_request_body_EmptyContent(g, T, m) ==
    LET s == json_schema(g, T)
    IN  Ret(Ok([RequestBody_default EXCEPT !.content = Map_new, !.required = TRUE]),
            s.gen)

fn_request_body(g, T, m) ==
    LET s == json_schema(g, T)
    IN  Ret(Ok([RequestBody_default EXCEPT
                  !.content = Map_insert(Map_new, m,
                                [MediaType_default EXCEPT !.schema = Some(s.schema)]),
                  !.required = TRUE]),
            s.gen)

\* impl OpenApiFromData for String
String_request_body(g, m) ==
    fn_request_body(g, "String", get_mime_type(m, DEFAULT_MIME_TYPE))

\* impl OpenApiFromData for &str
str_request_body(g, m) ==
    fn_request_body(g, "str", get_mime_type(m, DEFAULT_MIME_TYPE))

\* A Cow<str> rule written with the byte rule's payload type.
Cow_str_request_body_Bytes(g, m) ==
    fn_request_body(g, "Vec<u8>", get_mime_type(m, DEFAULT_MIME_TYPE))

\* impl OpenApiFromData for Cow<str>
Cow_str_request_body(g, m) ==
    fn_request_body(g, "str", get_mime_type(m, DEFAULT_MIME_TYPE))

\* impl OpenApiFromData for Vec<u8>
Vec_u8_request_body(g, m) ==
    fn_request_body(g, "Vec<u8>", get_mime_type(m, DEFAULT_MIME_TYPE))

\* impl OpenApiFromData for &[u8]
slice_u8_request_body(g, m) == Vec_u8_request_body(g, m)

\* A TempFile rule that describes the file as a string.
TempFile_request_body_String(g, m) ==
    fn_request_body(g, "String", get_mime_type(m, DEFAULT_MIME_TYPE))

\* impl OpenApiFromData for TempFile
TempFile_request_body(g, m) == Vec_u8_request_body(g, m)

\* impl OpenApiFromData for Capped<TempFile>
Capped_TempFile_request_body(g, m) == TempFile_request_body(g, m)

\* impl OpenApiFromData for Capped<Cow<str>>
Capped_Cow_str_request_body(g, m) ==
    fn_request_body(g, "str", get_mime_type(m, DEFAULT_MIME_TYPE))

\* impl OpenApiFromData for Capped<&str>
Capped_str_request_body(g, m) ==
    fn_request_body(g, "str", get_mime_type(m, DEFAULT_MIME_TYPE))

\* impl OpenApiFromData for &RawStr
RawStr_request_body(g, m) == Vec_u8_request_body(g, m)

\* impl OpenApiFromData for Capped<&RawStr>
Capped_RawStr_request_body(g, m) == RawStr_request_body(g, m)

\* impl OpenApiFromData for Capped<&[u8]>
Capped_slice_u8_request_body(g, m) == Vec_u8_request_body(g, m)

\* A Capped<String> rule that delegates to the byte rule, as its neighbours do.
Capped_String_request_body_Bytes(g, m) == Vec_u8_request_body(g, m)

\* impl OpenApiFromData for Capped<String>
Capped_String_request_body(g, m) == String_request_body(g, m)

\* impl OpenApiFromData for Capped<Vec<u8>>
Capped_Vec_u8_request_body(g, m) == Vec_u8_request_body(g, m)

\* impl OpenApiFromData for Data
Data_request_body(g, m) == Vec_u8_request_body(g, m)

\* impl OpenApiFromData for Form<T>
Form_request_body(T, g, m) ==
    fn_request_body(g, T, get_mime_type(m, DEFAULT_MIME_TYPE))

\* A Json rule that lets the caller's MIME type replace application/json.
Json_request_body_HonorsOverride(T, g, m) ==
    fn_request_body(g, T, get_mime_type(m, "application/json"))

\* impl OpenApiFromData for Json<T>
Json_request_body(T, g, m) ==
    fn_request_body(g, T, "application/json")

\* impl OpenApiFromData for MsgPack<T> (feature "msgpack", taken as enabled)
MsgPack_request_body(T, g, m) ==
    fn_request_body(g, T, "application/msgpack")

\* An extractor whose rule lives outside this file: it succeeds with a
\* descriptor of its own, or fails with one of the two error kinds.
User_request_body(k, g, m) ==
    CASE k = "ok" ->
            Ret(Ok([description |-> Some("user"),
                    content |-> Map_insert(Map_new, "text/csv", MediaType_default),
                    required |-> TRUE]), g)
      [] k = "errSchema" -> Ret(Err("SchemaGenerationFailed"), g)
      [] OTHER -> Ret(Err("Unresolvable"), g)

RECURSIVE request_body(_, _, _)

\* A Result rule that marks the body required again.
Result_request_body_ForcesRequired(T, g, m) ==
    LET r == request_body(T, g, m)
    IN  IF r.result.ok
        THEN Ret(Ok([r.result.body EXCEPT !.required = TRUE]), r.gen)
        ELSE r

\* impl OpenApiFromData for StdResult<T, T::Error>
Result_request_body(T, g, m) == request_body(T, g, m)

\* An Option rule without the `required: false` patch.
Option_request_body_KeepsRequired(T, g, m) == request_body(T, g, m)

\* An Option rule that answers an inner failure with an optional empty body.
Option_request_body_SwallowsErr(T, g, m) ==
    LET r == request_body(T, g, m)
    IN  IF r.result.ok
        THEN Ret(Ok([r.result.body EXCEPT !.required = FALSE]), r.gen)
        ELSE Ret(Ok(RequestBody_default), r.gen)

\* impl OpenApiFromData for Option<T>: `?` returns the inner Err as it is.
Option_request_body(T, g, m) ==
    LET r == request_body(T, g, m)
    IN  IF r.result.ok
        THEN Ret(Ok([r.result.body EXCEPT !.required = FALSE]), r.gen)
        ELSE Ret(Err(r.result.err), r.gen)

\* T::request_body(gen, mime_type): the rule the type T resolves to.
request_body(T, g, m) ==
    CASE T[1] = "String" -> String_request_body(g, m)
      [] T[1] = "str" -> str_request_body(g, m)
      [] T[1] = "Cow_str" -> Cow_str_request_body(g, m)
      [] T[1] = "Vec_u8" -> Vec_u8_request_body(g, m)
      [] T[1] = "slice_u8" -> slice_u8_request_body(g, m)
      [] T[1] = "Result" -> Result_request_body(T[2], g, m)
      [] T[1] = "Option" -> Option_request_body(T[2], g, m)
      [] T[1] = "TempFile" -> TempFile_request_body(g, m)
      [] T[1] = "Capped_TempFile" -> Capped_TempFile_request_body(g, m)
      [] T[1] = "Capped_Cow_str" -> Capped_Cow_str_request_body(g, m)
      [] T[1] = "Capped_str" -> Capped_str_request_body(g, m)
      [] T[1] = "Capped_RawStr" -> Capped_RawStr_request_body(g, m)
      [] T[1] = "Capped_slice_u8" -> Capped_slice_u8_request_body(g, m)
      [] T[1] = "Capped_String" -> Capped_String_request_body(g, m)
      [] T[1] = "Capped_Vec_u8" -> Capped_Vec_u8_request_body(g, m)
      [] T[1] = "RawStr" -> RawStr_request_body(g, m)
      [] T[1] = "Data" -> Data_request_body(g, m)
      [] T[1] = "Form" -> Form_request_body(T[2], g, m)
      [] T[1] = "Json" -> Json_request_body(T[2], g, m)
      [] T[1] = "MsgPack" -> MsgPack_request_body(T[2], g, m)
      [] T[1] = "User" -> User_request_body(T[2], g, m)

----------------------------------------------------------------------------
(* The state machine: one action per rule the route-registration layer can call *)

Init ==
    /\ gen = {}
    /\ ty = <<"none">>
    /\ mime_type = None
    /\ result = Err("none")

\* One request_body call: the state keeps its arguments, its return value
\* and the generator as the call left it.
Call(T, m, r) ==
    /\ ty' = T
    /\ mime_type' = m
    /\ result' = r.result
    /\ gen' = r.gen

CallString ==
    \E m \in MimeArgs : Call(<<"String">>, m, String_request_body(gen, m))

Callstr ==
    \E m \in MimeArgs : Call(<<"str">>, m, str_request_body(gen, m))

CallCow_str ==
    \E m \in MimeArgs : Call(<<"Cow_str">>, m, Cow_str_request_body(gen, m))

CallVec_u8 ==
    \E m \in MimeArgs : Call(<<"Vec_u8">>, m, Vec_u8_request_body(gen, m))

Callslice_u8 ==
    \E m \in MimeArgs : Call(<<"slice_u8">>, m, slice_u8_request_body(gen, m))

CallResult ==
    \E m \in MimeArgs, T \in InnerTypes :
        Call(<<"Result", T>>, m, Result_request_body(T, gen, m))

CallOption ==
    \E m \in MimeArgs, T \in InnerTypes :
        Call(<<"Option", T>>, m, Option_request_body(T, gen, m))

CallTempFile ==
    \E m \in MimeArgs : Call(<<"TempFile">>, m, TempFile_request_body(gen, m))

CallCapped_TempFile ==
    \E m \in MimeArgs :
        Call(<<"Capped_TempFile">>, m, Capped_TempFile_request_body(gen, m))

CallCapped_Cow_str ==
    \E m \in MimeArgs :
        Call(<<"Capped_Cow_str">>, m, Capped_Cow_str_request_body(gen, m))

CallCapped_str ==
    \E m \in MimeArgs : Call(<<"Capped_str">>, m, Capped_str_request_body(gen, m))

CallCapped_RawStr ==
    \E m \in MimeArgs :
        Call(<<"Capped_RawStr">>, m, Capped_RawStr_request_body(gen, m))

CallCapped_slice_u8 ==
    \E m \in MimeArgs :
        Call(<<"Capped_slice_u8">>, m, Capped_slice_u8_request_body(gen, m))

CallCapped_String ==
    \E m \in MimeArgs :
        Call(<<"Capped_String">>, m, Capped_String_request_body(gen, m))

CallCapped_Vec_u8 ==
    \E m \in MimeArgs :
        Call(<<"Capped_Vec_u8">>, m, Capped_Vec_u8_request_body(gen, m))

CallRawStr ==
    \E m \in MimeArgs : Call(<<"RawStr">>, m, RawStr_request_body(gen, m))

CallData ==
    \E m \in MimeArgs : Call(<<"Data">>, m, Data_request_body(gen, m))

CallForm ==
    \E m \in MimeArgs, U \in PayloadTypes :
        Call(<<"Form", U>>, m, Form_request_body(U, gen, m))

CallJson ==
    \E m \in MimeArgs, U \in PayloadTypes :
        Call(<<"Json", U>>, m, Json_request_body(U, gen, m))

CallMsgPack ==
    \E m \in MimeArgs, U \in PayloadTypes :
        Call(<<"MsgPack", U>>, m, MsgPack_request_body(U, gen, m))

CallUser ==
    \E m \in MimeArgs, k \in UserRules :
        Call(<<"User", k>>, m, User_request_body(k, gen, m))

Next ==
    \/ CallString
    \/ Callstr
    \/ CallCow_str
    \/ CallVec_u8
    \/ Callslice_u8
    \/ CallResult
    \/ CallOption
    \/ CallTempFile
    \/ CallCapped_TempFile
    \/ CallCapped_Cow_str
    \/ CallCapped_str
    \/ CallCapped_RawStr
    \/ CallCapped_slice_u8
    \/ CallCapped_String
    \/ CallCapped_Vec_u8
    \/ CallRawStr
    \/ CallData
    \/ CallForm
    \/ CallJson
    \/ CallMsgPack
    \/ CallUser

Spec == Init /\ [][Next]_vars

----------------------------------------------------------------------------
(* What the properties below speak of *)

Called == ty # <<"none">>

RECURSIVE LeafOf(_)
\* The extractor under every Option and Result of T.
LeafOf(T) == IF T[1] \in {"Option", "Result"} THEN LeafOf(T[2]) ELSE T

\* Two return values are the same outcome.
SameResult(a, b) ==
    /\ a.ok = b.ok
    /\ IF a.ok THEN a.body = b.body ELSE a.err = b.err

\* The MIME type the default policy resolves to.
PolicyMime(m) == IF m = None THEN "application/octet-stream" ELSE m[1]

StringSchema == "{type:string}"
ByteSchema == "{type:array,items:{type:integer,format:uint8}}"

\* The content map with the one entry k -> MediaType{schema: Some(s)}.
OneEntry(k, s) ==
    [x \in {k} |-> [schema |-> Some(s), example |-> None, encoding |-> Map_new]]

DefaultPolicyKinds ==
    {"String", "str", "Cow_str", "Vec_u8", "slice_u8", "RawStr", "TempFile", "Data",
     "Capped_TempFile", "Capped_Cow_str", "Capped_str", "Capped_RawStr",
     "Capped_slice_u8", "Capped_String", "Capped_Vec_u8", "Form"}

ByteKinds ==
    {"Vec_u8", "slice_u8", "Capped_Vec_u8", "Capped_slice_u8", "Data", "TempFile",
     "Capped_TempFile"}

StringKinds ==
    {"String", "str", "Cow_str", "Capped_String", "Capped_str", "Capped_Cow_str"}

RawStrKinds == {"RawStr", "Capped_RawStr"}

\* Capped<X> -> X
Uncapped ==
    [k \in {"Capped_String", "Capped_str", "Capped_Cow_str", "Capped_RawStr",
            "Capped_slice_u8", "Capped_Vec_u8", "Capped_TempFile"} |->
        CASE k = "Capped_String" -> "String"
          [] k = "Capped_str" -> "str"
          [] k = "Capped_Cow_str" -> "Cow_str"
          [] k = "Capped_RawStr" -> "RawStr"
          [] k = "Capped_slice_u8" -> "slice_u8"
          [] k = "Capped_Vec_u8" -> "Vec_u8"
          [] OTHER -> "TempFile"]

\* The extractor a wrapping or delegating rule resolves through.
InnerOf(T) ==
    CASE T[1] \in {"Option", "Result"} -> T[2]
      [] T[1] \in DOMAIN Uncapped -> <<Uncapped[T[1]]>>
      [] OTHER -> <<"Vec_u8">>

DelegatingKinds ==
    {"Option", "Result", "slice_u8", "TempFile", "RawStr", "Data"} \cup DOMAIN Uncapped

----------------------------------------------------------------------------
(* The properties *)

\* C1: a successful request_body of any extractor of this file, under any
\* chain of Option and Result and with any mime_type, returns a content map
\* of exactly one entry, keyed by the resolved MIME type, whose MediaType has
\* a schema.
C1_OneEntryWithSchema ==
    (Called /\ LeafOf(ty)[1] # "User" /\ result.ok) =>
        LET c == result.body.content
            k == CASE LeafOf(ty)[1] = "Json" -> "application/json"
                   [] LeafOf(ty)[1] = "MsgPack" -> "application/msgpack"
                   [] OTHER -> PolicyMime(mime_type)
        IN  /\ Cardinality(DOMAIN c) = 1
            /\ DOMAIN c = {k}
            /\ c[k].schema # None

C1_Witness ==
    /\ ty = <<"Option", <<"Result", <<"Form", "U">>>>>>
    /\ mime_type = Some("text/plain")
    /\ result.ok
    /\ DOMAIN result.body.content = {"text/plain"}
    /\ result.body.content["text/plain"].schema = Some("{$ref:U}")

\* C2: an extractor of the default MIME policy resolves to the single key
\* mime_type when one is given and application/octet-stream when none is,
\* with required = true.
C2_DefaultMimePolicy ==
    (Called /\ ty[1] \in DefaultPolicyKinds) =>
        /\ result.ok
        /\ DOMAIN result.body.content = {PolicyMime(mime_type)}
        /\ result.body.required = TRUE

C2_Witness ==
    /\ ty = <<"Vec_u8">>
    /\ mime_type = Some("image/png")
    /\ result.ok
    /\ DOMAIN result.body.content = {"image/png"}
    /\ result.body.required = TRUE

\* C3: Json<T> resolves to the single key application/json and MsgPack<T> to
\* application/msgpack whatever mime_type is, also under Option and Result.
C3_FixedFormatIgnoresOverride ==
    /\ (Called /\ LeafOf(ty)[1] = "Json") =>
          (result.ok /\ DOMAIN result.body.content = {"application/json"})
    /\ (Called /\ LeafOf(ty)[1] = "MsgPack") =>
          (result.ok /\ DOMAIN result.body.content = {"application/msgpack"})

C3_Witness ==
    /\ ty = <<"Result", <<"Option", <<"Json", "U">>>>>>
    /\ mime_type = Some("image/png")
    /\ result.ok
    /\ DOMAIN result.body.content = {"application/json"}

\* C4: whenever T resolves, Option<T> resolves too, to T's descriptor with
\* required = false and nothing else changed.
C4_OptionForcesNotRequired ==
    (Called /\ ty[1] = "Option") =>
        LET inner == request_body(ty[2], gen, mime_type).result
        IN  inner.ok =>
                /\ result.ok
                /\ result.body = [inner.body EXCEPT !.required = FALSE]
                /\ result.body.required = FALSE

C4_Witness ==
    /\ ty = <<"Option", <<"Result", <<"User", "ok">>>>>>
    /\ request_body(ty[2], gen, mime_type).result.ok
    /\ request_body(ty[2], gen, mime_type).result.body.required = TRUE
    /\ result.ok
    /\ result.body.required = FALSE
    /\ result.body.description = Some("user")

\* C5: Result<T, E> resolves to exactly what T resolves to with the same
\* mime_type: the same failure, or the same content and required flag.
C5_ResultIsTransparent ==
    (Called /\ ty[1] = "Result") =>
        SameResult(result, request_body(ty[2], gen, mime_type).result)

C5_Witness ==
    /\ ty = <<"Result", <<"Option", <<"String">>>>>>
    /\ mime_type = Some("text/plain")
    /\ result.ok
    /\ result.body.required = FALSE
    /\ DOMAIN result.body.content = {"text/plain"}

\* C6: Capped<X> resolves to exactly what X resolves to with the same
\* mime_type, for X in String, &str, Cow<str>, &RawStr, &[u8], Vec<u8>,
\* TempFile.
C6_CappedIsTransparent ==
    (Called /\ ty[1] \in DOMAIN Uncapped) =>
        /\ result.ok
        /\ SameResult(result, request_body(<<Uncapped[ty[1]]>>, gen, mime_type).result)

C6_Witness ==
    /\ ty = <<"Capped_String">>
    /\ mime_type = Some("image/png")
    /\ result.ok
    /\ result.body.content = OneEntry("image/png", StringSchema)
    /\ result.body.required = TRUE

\* C7: the byte-oriented extractors all resolve, for the same mime_type, to
\* the same result: the policy's MIME type with the Vec<u8> schema.
C7_ByteExtractorsAgree ==
    (Called /\ ty[1] \in ByteKinds) =>
        /\ result.ok
        /\ result.body.content = OneEntry(PolicyMime(mime_type), ByteSchema)
        /\ \A k \in ByteKinds :
              SameResult(result, request_body(<<k>>, gen, mime_type).result)

C7_Witness ==
    /\ ty = <<"Capped_TempFile">>
    /\ mime_type = None
    /\ result.ok
    /\ result.body.content = OneEntry("application/octet-stream", ByteSchema)

\* C8 as claimed: every textual extractor, &RawStr and Capped<&RawStr> among
\* them, resolves to the policy's MIME type with the string schema.
C8_AllTextualStringSchema ==
    (Called /\ ty[1] \in StringKinds \cup RawStrKinds) =>
        /\ result.ok
        /\ result.body.content = OneEntry(PolicyMime(mime_type), StringSchema)

\* C8 as amended: String, &str, Cow<str> and their Capped variants resolve
\* to the policy's MIME type with the string schema; &RawStr and
\* Capped<&RawStr> resolve to the same MIME type with the byte schema.
C8_StringExtractorsAgree ==
    /\ (Called /\ ty[1] \in StringKinds) =>
          /\ result.ok
          /\ result.body.content = OneEntry(PolicyMime(mime_type), StringSchema)
          /\ \A k \in StringKinds :
                SameResult(result, request_body(<<k>>, gen, mime_type).result)
    /\ (Called /\ ty[1] \in RawStrKinds) =>
          /\ result.ok
          /\ result.body.content = OneEntry(PolicyMime(mime_type), ByteSchema)

C8_Witness ==
    /\ ty = <<"Cow_str">>
    /\ mime_type = Some("text/plain")
    /\ result.ok
    /\ result.body.content = OneEntry("text/plain", StringSchema)

\* C10: when the extractor a wrapping or delegating rule resolves through
\* fails with e, the rule fails with the same e.
C10_FailurePropagates ==
    (Called /\ ty[1] \in DelegatingKinds) =>
        LET inner == request_body(InnerOf(ty), gen, mime_type).result
        IN  ~inner.ok => (~result.ok /\ result.err = inner.err)

C10_Witness ==
    /\ ty = <<"Option", <<"Result", <<"User", "errSchema">>>>>>
    /\ ~request_body(ty[2], gen, mime_type).result.ok
    /\ ~result.ok
    /\ result.err = "SchemaGenerationFailed"

====
